---- MODULE Spec2Model ----
(***************************************************************************)
(* noifgo: a wrapper around the go tool that replaces tagged interfaces by *)
(* their single implementation, runs the build and restores the sources.   *)
(*                                                                         *)
(* A string or a file is a sequence of bytes, each byte a one-character    *)
(* string.  Offsets are 0-based as in the Go code; sequences are 1-based,  *)
(* so byte offset k of b is b[k+1].                                        *)
(*                                                                         *)
(* Specifications:                                                         *)
(*   SpecPos      toPos on bounded files, rows and columns                 *)
(*   SpecTag      shouldConvertTo on bounded tag lines                     *)
(*   SpecScan     nextInterfaceToProcess called until it returns nil       *)
(*   SpecRewrite  the reference rewriting loop of main for one tag         *)
(*   Spec         main: scan, resolve, back up, rewrite, build, restore    *)
(***************************************************************************)
EXTENDS Integers, Sequences, FiniteSets, TLC

VARIABLES
    posArgs,   \* SpecPos: the arguments of one toPos call
    posRet,    \* SpecPos: what the call returned, NoRet before it
    tagArgs,   \* SpecTag: the arguments of one shouldConvertTo call
    tagRet,    \* SpecTag: what the call returned, NoRet before it
    tree,                  \* the source tree below rootFolder, in walk order
    processedInterfaces,   \* main: the tagged interfaces already returned
    returned,              \* SpecScan: the tags the calls returned, in order
    scanPc,                \* SpecScan: "loop" until a call returns nil
    refFiles,        \* SpecRewrite: the bytes of the files that hold references
    rwTag,           \* SpecRewrite: taggedIf, impl and ifRefs of the tag
    ri,              \* SpecRewrite: the index of the next reference
    lastRef,         \* main: lastRefFilepath, lastRefRow, lastRowGrowth
    editLog,         \* SpecRewrite: the edits applied, in order
    rwPc,            \* SpecRewrite: "loop", "done", "exit" or "panic"
    pc,                \* Spec: where main is
    srcFilesToBackup,  \* main: the tracked files, each with its backedUp flag
    content,           \* Spec: per path, the writes made to the file, or Absent
    snapshot,          \* Spec: per path, the content of <path>.txt, or Absent
    taggedIf,          \* main: the tag being processed
    impl,              \* main: its implementation
    implRefFiles,      \* Spec: the files that refer to the implementation
    ifRefsOfTag,       \* main: ifRefs, the parsed interface references
    idx,               \* main: the index of the running loop
    lookup,            \* Spec: what the resolver listed for implByIf, and its result
    tagWrites,         \* Spec: the files written since the tag was scanned
    hist               \* Spec: restore started, build runs, failed restorations

posVars == <<posArgs, posRet>>
tagVars == <<tagArgs, tagRet>>
scanVars == <<tree, processedInterfaces, returned, scanPc>>
rwVars == <<refFiles, rwTag, ri, lastRef, editLog, rwPc>>
drvVars == <<pc, srcFilesToBackup, content, snapshot, taggedIf, impl, implRefFiles,
             ifRefsOfTag, idx, lookup, tagWrites, hist>>
vars == <<posVars, tagVars, scanVars, rwVars, drvVars>>

NoRet == [pending |-> TRUE]
Idle == [idle |-> TRUE]
RwIdle ==
    /\ refFiles = Idle /\ rwTag = Idle /\ ri = Idle
    /\ lastRef = Idle /\ editLog = Idle /\ rwPc = Idle
DrvIdle ==
    /\ pc = Idle /\ srcFilesToBackup = Idle /\ content = Idle /\ snapshot = Idle
    /\ taggedIf = Idle /\ impl = Idle /\ implRefFiles = Idle /\ ifRefsOfTag = Idle
    /\ idx = Idle /\ lookup = Idle /\ tagWrites = Idle /\ hist = Idle

(***************************************************************************)
(* Bounds                                                                  *)
(***************************************************************************)
MaxFileLen == 4
MaxCol == 2
MaxTagTokens == 6
MaxScanLines == 4
MaxRefs == 3
MaxImplLines == 2
MaxRefLines == 2

(***************************************************************************)
(* Byte strings                                                            *)
(***************************************************************************)
BSeq(S, n) == UNION {[1..k -> S] : k \in 0..n}

RECURSIVE Concat(_)
Concat(ss) == IF ss = <<>> THEN <<>> ELSE Head(ss) \o Concat(Tail(ss))

\* s[from:] with a 0-based from
Drop(s, n) == SubSeq(s, n + 1, Len(s))

\* bytes.IndexByte, 1-based, 0 when absent
IndexByte(s, c) ==
    IF \E i \in 1..Len(s) : s[i] = c
    THEN CHOOSE i \in 1..Len(s) : s[i] = c /\ \A j \in 1..(i - 1) : s[j] # c
    ELSE 0

dropCR(data) ==
    IF Len(data) > 0 /\ data[Len(data)] = "\r"
    THEN SubSeq(data, 1, Len(data) - 1)
    ELSE data

\* bufio.ScanLines on the rest of a fully read file (atEOF): the bytes it
\* advances over and the line it yields, or no token at the end of the data.
ScanLines(data) ==
    IF Len(data) = 0
    THEN [ok |-> FALSE, advance |-> 0, token |-> <<>>]
    ELSE LET i == IndexByte(data, "\n") IN
         IF i > 0
         THEN [ok |-> TRUE, advance |-> i, token |-> dropCR(SubSeq(data, 1, i - 1))]
         ELSE [ok |-> TRUE, advance |-> Len(data), token |-> dropCR(data)]

(***************************************************************************)
(* toPos                                                                   *)
(***************************************************************************)
\* A disk is a function from the paths that exist to their bytes;
\* ioutil.ReadFile fails on any other path.
Readable(disk, filepath) == filepath \in DOMAIN disk

\* The scanning loop of toPos: pos is the sum of the advances so far.
RECURSIVE toPosScan(_, _, _, _, _)
toPosScan(data, curRow, pos, row, col) ==
    LET t == ScanLines(data) IN
    IF ~t.ok THEN pos
    ELSE IF curRow # row
         THEN toPosScan(Drop(data, t.advance), curRow + 1, pos + t.advance, row, col)
         ELSE ((pos + t.advance) - t.advance) + col

toPosMutNoColAdjust(disk, filepath, row, col) ==
    IF ~Readable(disk, filepath)
    THEN [pos |-> 0, err |-> TRUE]
    ELSE [pos |-> toPosScan(disk[filepath], 1, 0, row, col), err |-> FALSE]

toPos(disk, filepath, row, col) ==
    IF ~Readable(disk, filepath)
    THEN [pos |-> 0, err |-> TRUE]
    ELSE [pos |-> toPosScan(disk[filepath], 1, 0, row, col) - 1, err |-> FALSE]

(***************************************************************************)
(* SpecPos: one toPos call on a bounded file                               *)
(***************************************************************************)
PosBytes == {"a", "\n", "\r"}
PosFile == <<"f.go">>

PosInit ==
    /\ posArgs \in [bytes : BSeq(PosBytes, MaxFileLen),
                    readable : BOOLEAN,
                    row : 1..(MaxFileLen + 1),
                    col : 1..MaxCol]
    /\ posRet = NoRet
    /\ tagArgs = Idle /\ tagRet = Idle
    /\ tree = Idle /\ processedInterfaces = Idle /\ returned = Idle /\ scanPc = Idle
    /\ RwIdle /\ DrvIdle

PosDisk == IF posArgs.readable THEN [p \in {PosFile} |-> posArgs.bytes]
                               ELSE [p \in {} |-> <<>>]

ToPosCall ==
    /\ posRet = NoRet
    /\ posRet' = toPos(PosDisk, PosFile, posArgs.row, posArgs.col)
    /\ UNCHANGED <<posArgs, tagVars, scanVars, rwVars, drvVars>>

PosNext == ToPosCall

SpecPos == PosInit /\ [][PosNext]_vars

\* The number of lines of a file: one per line terminator, and one more for
\* a last line that has no terminator.
LineCount(b) ==
    Cardinality({i \in 1..Len(b) : b[i] = "\n"})
        + (IF Len(b) > 0 /\ b[Len(b)] # "\n" THEN 1 ELSE 0)

\* C10: position translation fails with an error whenever the requested row
\* exceeds the file's line count (an empty file included); it never returns
\* an offset for such a row.
C10_RowBeyondFileFails ==
    (posRet # NoRet /\ posArgs.row > LineCount(posArgs.bytes)) => posRet.err

(***************************************************************************)
(* shouldConvertTo                                                         *)
(***************************************************************************)
HasPrefix(s, prefix) ==
    Len(s) >= Len(prefix) /\ SubSeq(s, 1, Len(prefix)) = prefix

\* bytes.Index, 1-based, 0 when absent
Index(s, sep) ==
    IF \E i \in 1..Len(s) : HasPrefix(Drop(s, i - 1), sep)
    THEN CHOOSE i \in 1..Len(s) :
            /\ HasPrefix(Drop(s, i - 1), sep)
            /\ \A j \in 1..(i - 1) : ~HasPrefix(Drop(s, j - 1), sep)
    ELSE 0

\* bytes.Contains
Contains(s, sep) == Index(s, sep) > 0

\* bytes.LastIndex of a single byte, 1-based, 0 when absent
LastIndexByte(s, c) ==
    IF \E i \in 1..Len(s) : s[i] = c
    THEN CHOOSE i \in 1..Len(s) : s[i] = c /\ \A j \in (i + 1)..Len(s) : s[j] # c
    ELSE 0

\* bytes.Split with a non-empty separator
RECURSIVE Split(_, _)
Split(s, sep) ==
    LET i == Index(s, sep) IN
    IF i = 0 THEN <<s>>
    ELSE <<SubSeq(s, 1, i - 1)>> \o Split(Drop(s, i - 1 + Len(sep)), sep)

IsSpace(c) == c \in {" ", "\t", "\n", "\r"}

\* bytes.TrimSpace
RECURSIVE TrimSpace(_)
TrimSpace(s) ==
    IF Len(s) = 0 THEN s
    ELSE IF IsSpace(s[1]) THEN TrimSpace(Tail(s))
    ELSE IF IsSpace(s[Len(s)]) THEN TrimSpace(SubSeq(s, 1, Len(s) - 1))
    ELSE s

refMarker == <<"n", "o", "i", "f", "g", "o", ":">>

\* The loop of shouldConvertTo that finds the line before row: prevLine is
\* the last line passed over, nil (empty) when row is the first line.
RECURSIVE prevLineScan(_, _, _, _)
prevLineScan(data, curRow, prevLine, row) ==
    LET t == ScanLines(data) IN
    IF ~t.ok THEN prevLine
    ELSE IF curRow # row
         THEN prevLineScan(Drop(data, t.advance), curRow + 1, t.token, row)
         ELSE prevLine

TagOk(kind) == [out |-> kind, err |-> FALSE, panic |-> FALSE]
TagErr == [out |-> "", err |-> TRUE, panic |-> FALSE]
\* an index out of range: the process dies, nothing is returned
TagPanic == [out |-> "", err |-> FALSE, panic |-> TRUE]

\* The loop over the key value pairs of shouldConvertTo.
RECURSIVE matchPairs(_, _)
matchPairs(keyValuePairs, ifName) ==
    IF keyValuePairs = <<>> THEN TagErr
    ELSE LET keyValuePair == Split(TrimSpace(Head(keyValuePairs)), <<",">>) IN
         IF Len(keyValuePair) # 2 THEN TagErr
         ELSE IF keyValuePair[1] = ifName
              THEN IF keyValuePair[2] = <<"p">> THEN TagOk("p")
                   ELSE IF keyValuePair[2] = <<"v">> THEN TagOk("v")
                   ELSE TagErr
              ELSE matchPairs(Tail(keyValuePairs), ifName)

shouldConvertTo(disk, filepath, row, ifName) ==
    IF ~Readable(disk, filepath) THEN TagErr
    ELSE LET prevLine == prevLineScan(disk[filepath], 1, <<>>, row)
             prevLineParts == Split(prevLine, refMarker)
         IN
         IF Len(prevLineParts) # 2 THEN TagErr
         ELSE IF Len(prevLineParts[2]) = 0 THEN TagPanic
         ELSE IF prevLineParts[2][1] # "{" THEN TagErr
         ELSE LET closingCurlyBrIx == LastIndexByte(prevLineParts[2], "}") IN
              IF closingCurlyBrIx = 0 THEN TagErr
              ELSE matchPairs(
                       Split(SubSeq(prevLineParts[2], 2, closingCurlyBrIx - 1), <<";">>),
                       ifName)

(***************************************************************************)
(* SpecTag: one shouldConvertTo call on a two-line file, the first line    *)
(* built from the tokens of the tag grammar, the second the reference.     *)
(***************************************************************************)
TagIfName == <<"A">>
TagTokens == {"M", "{", "}", ",", ";", "A", "p", "v"}

\* The bytes of a token; with padded, a blank follows every pair separator
\* as in the README's //noifgo:{InterfaceA,p; InterfaceB,v}.
TokenBytes(t, padded) ==
    IF t = "M" THEN refMarker
    ELSE IF t = ";" /\ padded THEN <<";", " ">>
    ELSE <<t>>

RECURSIVE Render(_, _)
Render(toks, padded) ==
    IF toks = <<>> THEN <<>>
    ELSE TokenBytes(Head(toks), padded) \o Render(Tail(toks), padded)

TagRefLine == <<"x", " ", "A">>
TagFile == <<"f.go">>
TagCanonical == {<<"M", "{", "A", ",", "p", "}">>, <<"M", "{", "A", ",", "v", "}">>}

TagInit ==
    /\ tagArgs \in
          [toks : BSeq(TagTokens, MaxTagTokens), padded : BOOLEAN, row : {2}]
          \cup [toks : TagCanonical, padded : {FALSE}, row : {1, 3}]
    /\ tagRet = NoRet
    /\ posArgs = Idle /\ posRet = Idle
    /\ tree = Idle /\ processedInterfaces = Idle /\ returned = Idle /\ scanPc = Idle
    /\ RwIdle /\ DrvIdle

TagDisk ==
    [p \in {TagFile} |->
        Render(tagArgs.toks, tagArgs.padded) \o <<"\n">> \o TagRefLine \o <<"\n">>]

ShouldConvertToCall ==
    /\ tagRet = NoRet
    /\ tagRet' = shouldConvertTo(TagDisk, TagFile, tagArgs.row, TagIfName)
    /\ UNCHANGED <<tagArgs, posVars, scanVars, rwVars, drvVars>>

TagNext == ShouldConvertToCall

SpecTag == TagInit /\ [][TagNext]_vars

\* The tag grammar on tokens: //noifgo:{Name,kind; Name,kind; ...}
CountTok(toks, t) == Cardinality({i \in 1..Len(toks) : toks[i] = t})
AfterMarker(toks) == Drop(toks, IndexByte(toks, "M"))
NoMarker(toks) == CountTok(toks, "M") = 0
OneMarker(toks) == CountTok(toks, "M") = 1
MarkerAtEnd(toks) == OneMarker(toks) /\ AfterMarker(toks) = <<>>
MarkerWithoutBrace(toks) ==
    OneMarker(toks) /\ AfterMarker(toks) # <<>> /\ AfterMarker(toks)[1] # "{"
Opened(toks) ==
    OneMarker(toks) /\ AfterMarker(toks) # <<>> /\ AfterMarker(toks)[1] = "{"
NoClosingBrace(toks) == Opened(toks) /\ CountTok(AfterMarker(toks), "}") = 0
Braced(toks) == Opened(toks) /\ CountTok(AfterMarker(toks), "}") > 0
TagPairs(toks) ==
    LET after == AfterMarker(toks) IN
    Split(SubSeq(after, 2, LastIndexByte(after, "}") - 1), <<";">>)
IsPairFor(pair, name) == Len(pair) >= 2 /\ pair[1] = name /\ pair[2] = ","
PairWithoutComma(toks) ==
    Braced(toks) /\ \E i \in 1..Len(TagPairs(toks)) : CountTok(TagPairs(toks)[i], ",") = 0
UnknownKind(toks, name) ==
    Braced(toks) /\ \E i \in 1..Len(TagPairs(toks)) :
        /\ IsPairFor(TagPairs(toks)[i], name)
        /\ Drop(TagPairs(toks)[i], 2) \notin {<<"p">>, <<"v">>}
NoPairFor(toks, name) ==
    Braced(toks) /\ \A i \in 1..Len(TagPairs(toks)) : ~IsPairFor(TagPairs(toks)[i], name)
MisTagged(toks, name) ==
    \/ NoMarker(toks) \/ MarkerAtEnd(toks) \/ MarkerWithoutBrace(toks)
    \/ NoClosingBrace(toks) \/ PairWithoutComma(toks)
    \/ UnknownKind(toks, name) \/ NoPairFor(toks, name)
PairedWith(toks, name, kind) ==
    /\ Braced(toks) /\ ~MisTagged(toks, name)
    /\ \E i \in 1..Len(TagPairs(toks)) : TagPairs(toks)[i] = <<name, ",", kind>>

\* C8: a reference whose tag line (the line above it) pairs the interface
\* name with p converts to a pointer, one paired with v to a value, and for
\* every untagged or mis-tagged line (no marker, marker not followed by '{',
\* marker at the very end of the line, no closing '}', a pair without ',', a
\* kind other than p or v, no pair for the name, reference on row 1) the tag
\* parser returns an error.
C8_TagFidelity ==
    (tagRet # NoRet /\ tagArgs.row \in {1, 2}) =>
        /\ (tagArgs.row = 2 /\ PairedWith(tagArgs.toks, "A", "p")) => tagRet = TagOk("p")
        /\ (tagArgs.row = 2 /\ PairedWith(tagArgs.toks, "A", "v")) => tagRet = TagOk("v")
        /\ (tagArgs.row = 1 \/ MisTagged(tagArgs.toks, "A")) => tagRet = TagErr

\* Apart from a marker at the very end of the line, the parser meets the
\* grammar on every bounded line.
C8_ExceptMarkerAtEnd ==
    (tagRet # NoRet /\ tagArgs.row \in {1, 2}
        /\ ~MarkerAtEnd(tagArgs.toks)) =>
        /\ (tagArgs.row = 2 /\ PairedWith(tagArgs.toks, "A", "p")) => tagRet = TagOk("p")
        /\ (tagArgs.row = 2 /\ PairedWith(tagArgs.toks, "A", "v")) => tagRet = TagOk("v")
        /\ (tagArgs.row = 1 \/ MisTagged(tagArgs.toks, "A")) => tagRet = TagErr

(***************************************************************************)
(* Paths.  A filepath is [dir, name, suffix]: the components of its        *)
(* directory (each a byte string), the file name without suffix and the    *)
(* suffix (".go", "_test.go", or another extension).                       *)
(***************************************************************************)
Path(dir, name, suffix) == [dir |-> dir, name |-> name, suffix |-> suffix]

\* filepath.Ext
Ext(fp) == IF fp.suffix = "_test.go" THEN ".go" ELSE fp.suffix

\* filepath.Dir
Dir(fp) == fp.dir

\* filepath.Base(filepath.Dir(fp))
pkgFromFilepath(fp) == IF fp.dir = <<>> THEN <<".">> ELSE fp.dir[Len(fp.dir)]

Nil == [nil |-> TRUE]

(***************************************************************************)
(* nextInterfaceToProcess                                                  *)
(***************************************************************************)
ifdefTag == <<"n", "o", "i", "f", "g", "o", ":", "i", "f", "d", "e", "f">>
typeKeyword == <<"t", "y", "p", "e", " ">>
interfaceKeyword == <<"i", "n", "t", "e", "r", "f", "a", "c", "e">>

\* The loop that finds the interface name in a line: the 0-based indexes of
\* its first and last byte, 0 when not found.
RECURSIVE ifNameIx(_, _, _)
ifNameIx(sb, i, ifNameStartIx) ==
    IF i >= Len(sb) THEN [start |-> ifNameStartIx, end |-> 0]
    ELSE IF sb[i + 1] = " "
         THEN IF ifNameStartIx # 0
              THEN [start |-> ifNameStartIx, end |-> i - 1]
              ELSE ifNameIx(sb, i + 1, ifNameStartIx)
         ELSE ifNameIx(sb, i + 1, IF ifNameStartIx = 0 THEN i ELSE ifNameStartIx)

\* The name a line declares as an interface, Nil when the line is no
\* interface declaration.
declaredInterface(sb) ==
    IF Len(sb) < 5 THEN Nil
    ELSE IF SubSeq(sb, 1, 5) # typeKeyword THEN Nil
    ELSE LET ix == ifNameIx(sb, 5, 0) IN
         IF ix.start = 0 \/ ix.end = 0 THEN Nil
         ELSE IF ~Contains(Drop(sb, ix.end + 1), interfaceKeyword) THEN Nil
         ELSE [name |-> SubSeq(sb, ix.start + 1, ix.end + 1)]

isProcessed(processed, path, interfaceName) ==
    \E k \in 1..Len(processed) :
        interfaceName = processed[k].name /\ path = processed[k].filepath

\* The line loop of the walk function on one file: the first tagged
\* interface of the file that is not yet processed, or Nil.
RECURSIVE scanFile(_, _, _, _, _)
scanFile(data, path, row, found, processed) ==
    LET t == ScanLines(data)
        rest == Drop(data, t.advance)
    IN
    IF ~t.ok THEN Nil
    ELSE IF Contains(t.token, ifdefTag) THEN scanFile(rest, path, row + 1, TRUE, processed)
    ELSE IF ~found THEN scanFile(rest, path, row + 1, FALSE, processed)
    ELSE LET d == declaredInterface(t.token) IN
         IF d = Nil THEN scanFile(rest, path, row + 1, FALSE, processed)
         ELSE IF isProcessed(processed, path, d.name)
              THEN scanFile(rest, path, row + 1, FALSE, processed)
              ELSE [filepath |-> path, name |-> d.name, row |-> row + 1, col |-> 6]

\* filepath.Walk over the tree: the walk function returns nil for every
\* entry, so the walk goes on after a find; each find overwrites taggedIf and
\* is appended to processedInterfaces.
RECURSIVE walk(_, _, _)
walk(entries, lastFound, processed) ==
    IF entries = <<>> THEN [taggedIf |-> lastFound, processed |-> processed]
    ELSE LET e == Head(entries) IN
         IF e.isDir \/ Ext(e.path) # ".go"
         THEN walk(Tail(entries), lastFound, processed)
         ELSE LET f == scanFile(e.bytes, e.path, 0, FALSE, processed) IN
              IF f = Nil THEN walk(Tail(entries), lastFound, processed)
              ELSE walk(Tail(entries), f, Append(processed, f))

nextInterfaceToProcess(rootTree, processed) == walk(rootTree, Nil, processed)

(***************************************************************************)
(* SpecScan: the scan called with the accumulating processed set until it  *)
(* returns nil, on trees of two source files, a directory and a text file. *)
(***************************************************************************)
LineKinds == {"tag", "declA", "declB", "struct", "other"}

LineBytes(kind) ==
    IF kind = "tag" THEN <<"/", "/">> \o ifdefTag
    ELSE IF kind = "declA" THEN typeKeyword \o <<"A", " ">> \o interfaceKeyword \o <<" ", "{">>
    ELSE IF kind = "declB" THEN typeKeyword \o <<"B", "b", " ">> \o interfaceKeyword \o <<"{">>
    ELSE IF kind = "struct" THEN typeKeyword \o <<"A", " ", "s", "t", "r", "u", "c", "t">>
    ELSE <<"}">>

RECURSIVE FileBytes(_)
FileBytes(kinds) ==
    IF kinds = <<>> THEN <<>>
    ELSE LineBytes(Head(kinds)) \o <<"\n">> \o FileBytes(Tail(kinds))

DirEntry(dir) == [path |-> Path(dir, "", ""), isDir |-> TRUE, bytes |-> <<>>]
FileEntry(path, kinds) == [path |-> path, isDir |-> FALSE, bytes |-> FileBytes(kinds)]

ScanPath1 == Path(<< <<"a">> >>, "if", ".go")
ScanPath2 == Path(<< <<"b">> >>, "use", "_test.go")
ScanTextPath == Path(<< <<"b">> >>, "notes", ".txt")

ScanTree(k1, k2) ==
    << DirEntry(<< <<"a">> >>), FileEntry(ScanPath1, k1),
       DirEntry(<< <<"b">> >>), FileEntry(ScanTextPath, <<"tag", "declA">>),
       FileEntry(ScanPath2, k2) >>

ScanInit ==
    /\ \E k1 \in BSeq(LineKinds, MaxScanLines), k2 \in BSeq(LineKinds, MaxScanLines - 2) :
          tree = ScanTree(k1, k2)
    /\ processedInterfaces = <<>>
    /\ returned = <<>>
    /\ scanPc = "loop"
    /\ posArgs = Idle /\ posRet = Idle
    /\ tagArgs = Idle /\ tagRet = Idle
    /\ RwIdle /\ DrvIdle

\* One iteration of main's loop with the processing of the tag left out.
ScanFound ==
    /\ scanPc = "loop"
    /\ LET r == nextInterfaceToProcess(tree, processedInterfaces) IN
       /\ r.taggedIf # Nil
       /\ returned' = Append(returned, r.taggedIf)
       /\ processedInterfaces' = r.processed
    /\ UNCHANGED <<tree, scanPc, posVars, tagVars, rwVars, drvVars>>

ScanNone ==
    /\ scanPc = "loop"
    /\ LET r == nextInterfaceToProcess(tree, processedInterfaces) IN
       /\ r.taggedIf = Nil
       /\ processedInterfaces' = r.processed
    /\ scanPc' = "done"
    /\ UNCHANGED <<tree, returned, posVars, tagVars, rwVars, drvVars>>

ScanNext == ScanFound \/ ScanNone

SpecScan == ScanInit /\ [][ScanNext]_vars

\* The (filepath, name) pairs a tree marks: an interface declaration on the
\* line right after a line that holds the ifdef tag, in a .go file.
FileLines(bytes) == Split(bytes, <<"\n">>)
MarkedIn(e) ==
    LET ls == FileLines(e.bytes) IN
    {[filepath |-> e.path, name |-> declaredInterface(ls[i + 1]).name] :
        i \in {j \in 1..(Len(ls) - 1) :
                 /\ Contains(ls[j], ifdefTag)
                 /\ ~Contains(ls[j + 1], ifdefTag)
                 /\ declaredInterface(ls[j + 1]) # Nil}}
MarkedPairs(t) ==
    UNION {MarkedIn(t[i]) : i \in {j \in 1..Len(t) : ~t[j].isDir /\ Ext(t[j].path) = ".go"}}
PairOf(tg) == [filepath |-> tg.filepath, name |-> tg.name]
PairsOf(tags) == {PairOf(tags[i]) : i \in 1..Len(tags)}

\* C4: over a fixed tree of N distinct marked interfaces, the scan called
\* with the accumulating processed set never returns a pair twice, marks as
\* processed only the pair it returns, and returns nil for the first time
\* on call N+1, after having returned every marked pair once.
C4_IdempotentDiscovery ==
    /\ \A i, j \in 1..Len(returned) : PairOf(returned[i]) = PairOf(returned[j]) => i = j
    /\ PairsOf(processedInterfaces) = PairsOf(returned)
    /\ scanPc = "done" =>
          /\ PairsOf(returned) = MarkedPairs(tree)
          /\ Len(returned) = Cardinality(MarkedPairs(tree))

\* What does hold: no pair is returned twice, every returned pair is marked,
\* and the calls end.
ScanNeverRepeats ==
    /\ \A i, j \in 1..Len(returned) : PairOf(returned[i]) = PairOf(returned[j]) => i = j
    /\ PairsOf(returned) \subseteq MarkedPairs(tree)
    /\ PairsOf(processedInterfaces) \subseteq MarkedPairs(tree)

(***************************************************************************)
(* The rewriting of the interface references (main) and renameRefSingle    *)
(***************************************************************************)
implPrefix == <<"N", "o", "I", "F", "G", "o">>

referencesInSamePkgMutByName(filepathA, filepathB) ==
    pkgFromFilepath(filepathA) = pkgFromFilepath(filepathB)

referencesInSamePkg(filepathA, filepathB) == Dir(filepathA) = Dir(filepathB)

renameRefSingleMutNoShift(disk, filepath, from, to, pos, refAndIfInSamePkg, ifPkgName) ==
    IF ~Readable(disk, filepath)
    THEN [disk |-> disk, err |-> TRUE, panic |-> FALSE]
    ELSE LET b == disk[filepath]
             from2 == IF refAndIfInSamePkg THEN from ELSE ifPkgName \o <<".">> \o from
         IN
         IF pos < 0 \/ pos + Len(from2) > Len(b)
         THEN [disk |-> disk, err |-> FALSE, panic |-> TRUE]
         ELSE [disk |-> [disk EXCEPT ![filepath] =
                            SubSeq(b, 1, pos) \o to \o Drop(b, pos + Len(from2))],
               err |-> FALSE, panic |-> FALSE]

\* renameRefSingle: the file with from at byte offset pos replaced by to.
\* An offset outside the file makes an index or slice expression panic.
renameRefSingle(disk, filepath, from, to, pos, refAndIfInSamePkg, ifPkgName) ==
    IF ~Readable(disk, filepath)
    THEN [disk |-> disk, err |-> TRUE, panic |-> FALSE]
    ELSE LET b == disk[filepath]
             pos2 == IF refAndIfInSamePkg THEN pos ELSE pos - 1 - Len(ifPkgName)
             from2 == IF refAndIfInSamePkg THEN from ELSE ifPkgName \o <<".">> \o from
         IN
         IF pos2 < 0 \/ pos2 + Len(from2) > Len(b)
         THEN [disk |-> disk, err |-> FALSE, panic |-> TRUE]
         ELSE [disk |-> [disk EXCEPT ![filepath] =
                            SubSeq(b, 1, pos2) \o to \o Drop(b, pos2 + Len(from2))],
               err |-> FALSE, panic |-> FALSE]

NoPath == Path(<<>>, "", "")
LastRefInit == [filepath |-> NoPath, row |-> 0, growth |-> 0]

\* The replacement text of a reference.
newName(convertTo, refFilepath, implementation) ==
    LET typePrefix == IF convertTo = "p" THEN <<"*">> ELSE <<>>
        pkgPrefix == IF referencesInSamePkg(refFilepath, implementation.filepath)
                     THEN <<>>
                     ELSE pkgFromFilepath(implementation.filepath) \o <<".">>
    IN typePrefix \o pkgPrefix \o implPrefix \o implementation.name

\* One iteration of the loop over ifRefs: status "ok" with the new disk, the
\* new last* variables and the edit made, "exit" when main returns, "panic"
\* when the process dies.
rewriteStep(disk, tagged, implementation, ifRef, last) ==
    LET col == IF last.filepath = ifRef.filepath /\ last.row = ifRef.row
               THEN ifRef.col + last.growth
               ELSE ifRef.col
        refPos == toPos(disk, ifRef.filepath, ifRef.row, col)
        convertTo == shouldConvertTo(disk, ifRef.filepath, ifRef.row, tagged.name)
        typePrefix == IF convertTo.out = "p" THEN <<"*">> ELSE <<>>
        refAndIfInSamePkg == referencesInSamePkg(ifRef.filepath, tagged.filepath)
        to == newName(convertTo.out, ifRef.filepath, implementation)
        r == renameRefSingle(disk, ifRef.filepath, tagged.name, to, refPos.pos,
                             refAndIfInSamePkg, pkgFromFilepath(tagged.filepath))
        stop(status) == [status |-> status, disk |-> disk, last |-> last, edit |-> Nil]
    IN
    IF refPos.err THEN stop("exit")
    ELSE IF convertTo.panic THEN stop("panic")
    ELSE IF convertTo.err THEN stop("exit")
    ELSE IF r.panic THEN stop("panic")
    ELSE IF r.err THEN stop("exit")
    ELSE [status |-> "ok",
          disk |-> r.disk,
          last |-> [filepath |-> ifRef.filepath, row |-> ifRef.row,
                    growth |-> Len(typePrefix) + 9],
          edit |-> [filepath |-> ifRef.filepath, row |-> ifRef.row, col |-> ifRef.col,
                    usedCol |-> col, pos |-> refPos.pos, convertTo |-> convertTo.out,
                    from |-> IF refAndIfInSamePkg THEN tagged.name
                             ELSE pkgFromFilepath(tagged.filepath) \o <<".">> \o tagged.name,
                    to |-> to,
                    before |-> disk[ifRef.filepath]]]

(***************************************************************************)
(* SpecRewrite: the loop over the references of one tag.  The references   *)
(* are on row 2 of one or two files, under a tag line, in the order the    *)
(* resolver lists them.                                                    *)
(***************************************************************************)
RwIfNames == {<<"A">>, <<"A", "d", "d">>}
RwImplNames == {<<"t">>, <<"i", "m", "p", "l">>}
RwKinds == {"p", "v", "x"}
RwDirA == << <<"a">> >>
RwDirX == << <<"x">>, <<"u", "t">> >>
RwDirY == << <<"y">>, <<"u", "t">> >>
RwDirs == {RwDirA, RwDirX, RwDirY}

\* //noifgo:{Name,kind}
RwTagLine(ifName, kind) == <<"/", "/">> \o refMarker \o <<"{">> \o ifName \o <<",", kind, "}">>

\* The interface name as a reference writes it: qualified outside its package.
RwQualified(ifName, refDir, ifDir) ==
    IF refDir = ifDir THEN ifName ELSE ifDir[Len(ifDir)] \o <<".">> \o ifName

\* f(a Name, a Name, ...) with n parameters
RECURSIVE RwParams(_, _)
RwParams(word, n) ==
    IF n = 0 THEN <<>>
    ELSE <<"a", " ">> \o word \o (IF n > 1 THEN <<",", " ">> ELSE <<>>) \o RwParams(word, n - 1)

RwCodeLine(word, n) == <<"f", "(">> \o RwParams(word, n) \o <<")">>

\* The 1-based column of the k-th interface identifier of the code line.
RwCol(ifName, refDir, ifDir, k) ==
    LET word == RwQualified(ifName, refDir, ifDir) IN
    2 + (k - 1) * (Len(word) + 4) + 2 + (Len(word) - Len(ifName)) + 1

RwBytes(ifName, kind, refDir, ifDir, n) ==
    RwTagLine(ifName, kind) \o <<"\n">>
        \o RwCodeLine(RwQualified(ifName, refDir, ifDir), n) \o <<"\n">>

Perms(n) == {f \in [1..n -> 1..n] : \A i, j \in 1..n : f[i] = f[j] => i = j}

RwPath1(refDir) == Path(refDir, "use", ".go")
RwPath2(refDir) == Path(refDir, "more", ".go")

RwInit ==
    /\ \E ifName \in RwIfNames, implName \in RwImplNames, kind \in RwKinds,
          ifDir \in {RwDirA, RwDirX}, implDir \in RwDirs, refDir \in RwDirs,
          n \in 1..MaxRefs, second \in BOOLEAN :
          \E order \in Perms(n) :
             LET refs1 == [k \in 1..n |->
                             [filepath |-> RwPath1(refDir), row |-> 2,
                              col |-> RwCol(ifName, refDir, ifDir, order[k])]]
                 refs2 == IF second
                          THEN <<[filepath |-> RwPath2(refDir), row |-> 2,
                                  col |-> RwCol(ifName, refDir, ifDir, 1)]>>
                          ELSE <<>>
             IN
             /\ rwTag = [taggedIf |-> [filepath |-> Path(ifDir, "if", ".go"), name |-> ifName],
                         impl |-> [filepath |-> Path(implDir, "impl", ".go"), name |-> implName],
                         ifRefs |-> <<refs1[1]>> \o refs2 \o Tail(refs1)]
             /\ refFiles =
                   [p \in {RwPath1(refDir)} \cup (IF second THEN {RwPath2(refDir)} ELSE {}) |->
                       IF p = RwPath1(refDir)
                       THEN RwBytes(ifName, kind, refDir, ifDir, n)
                       ELSE RwBytes(ifName, kind, refDir, ifDir, 1)]
    /\ ri = 1
    /\ lastRef = LastRefInit
    /\ editLog = <<>>
    /\ rwPc = "loop"
    /\ posArgs = Idle /\ posRet = Idle
    /\ tagArgs = Idle /\ tagRet = Idle
    /\ tree = Idle /\ processedInterfaces = Idle /\ returned = Idle /\ scanPc = Idle
    /\ DrvIdle

RwOthers == <<posVars, tagVars, scanVars, drvVars>>

RenameRef ==
    /\ rwPc = "loop"
    /\ ri <= Len(rwTag.ifRefs)
    /\ LET st == rewriteStep(refFiles, rwTag.taggedIf, rwTag.impl, rwTag.ifRefs[ri], lastRef) IN
       IF st.status = "ok"
       THEN /\ refFiles' = st.disk
            /\ lastRef' = st.last
            /\ editLog' = Append(editLog, st.edit)
            /\ ri' = ri + 1
            /\ rwPc' = rwPc
       ELSE /\ rwPc' = st.status
            /\ UNCHANGED <<refFiles, lastRef, editLog, ri>>
    /\ UNCHANGED <<rwTag, RwOthers>>

RenameRefsDone ==
    /\ rwPc = "loop"
    /\ ri > Len(rwTag.ifRefs)
    /\ rwPc' = "done"
    /\ UNCHANGED <<refFiles, rwTag, ri, lastRef, editLog, RwOthers>>

RwNext == RenameRef \/ RenameRefsDone

SpecRewrite == RwInit /\ [][RwNext]_vars

SameLine(e1, e2) == e1.filepath = e2.filepath /\ e1.row = e2.row

\* C7: for two successive references on the same file and row, the column
\* used to compute the second edit's byte offset is its reported column plus
\* the byte-length delta of the first edit, len(newText) - len(oldText).
C7_OffsetCorrection ==
    \A k \in 2..Len(editLog) :
        SameLine(editLog[k - 1], editLog[k]) =>
            editLog[k].usedCol =
                editLog[k].col + (Len(editLog[k - 1].to) - Len(editLog[k - 1].from))

\* What the code adds instead: the length of the type prefix plus nine.
OffsetCorrectionIsPrefixPlusNine ==
    \A k \in 2..Len(editLog) :
        SameLine(editLog[k - 1], editLog[k]) =>
            editLog[k].usedCol =
                editLog[k].col + (IF editLog[k - 1].convertTo = "p" THEN 1 ELSE 0) + 9

\* C9: the replacement text of a reference holds the "<implementation
\* package>." prefix if and only if the reference's file and the
\* implementation's file lie in different directories; the export prefix and
\* the implementation name always follow, and the pointer sigil, when
\* present, comes before the package prefix.
C9_QualificationRule ==
    \A k \in 1..Len(editLog) :
        LET e == editLog[k]
            star == IF e.convertTo = "p" THEN <<"*">> ELSE <<>>
            qual == rwTag.impl.filepath.dir[Len(rwTag.impl.filepath.dir)] \o <<".">>
            body == <<"N", "o", "I", "F", "G", "o">> \o rwTag.impl.name
        IN IF e.filepath.dir # rwTag.impl.filepath.dir
           THEN e.to = star \o qual \o body
           ELSE e.to = star \o body

\* A pointer reference has been rewritten in a directory other than the
\* implementation's whose last component is the implementation's package
\* name, and a value reference in the implementation's own directory.
C9_Witness ==
    /\ rwPc = "done"
    /\ \E k \in 1..Len(editLog) :
          LET e == editLog[k] IN
          /\ e.filepath.dir # rwTag.impl.filepath.dir
          /\ e.filepath.dir[Len(e.filepath.dir)]
                = rwTag.impl.filepath.dir[Len(rwTag.impl.filepath.dir)]
          /\ e.convertTo = "p"

(***************************************************************************)
(* srcFilesToBackup.Add, and the parsers of the resolver's output          *)
(***************************************************************************)
Add(s, filepath) ==
    IF \E i \in 1..Len(s) : filepath = s[i].filepath
    THEN s
    ELSE Append(s, [filepath |-> filepath, backedUp |-> FALSE])

RECURSIVE AddAll(_, _)
AddAll(s, refs) ==
    IF refs = <<>> THEN s ELSE AddAll(Add(s, Head(refs).filepath), Tail(refs))

\* A line of guru's output after the first, "<file>:<r.c>-<r.c>:<text>".
\* shape says how far the parsers get: "ok" parses, "colons" does not split
\* in three parts at ':' (a ':' in the path or in the source text), "rowcol"
\* has no row.col-row.col in its second part.
GuruLine(filepath, shape) ==
    [filepath |-> filepath, shape |-> shape, row |-> 3, col |-> 6, name |-> <<"t">>]

IsTestLine(line) == line.filepath.suffix = "_test.go"

ZeroImpl == [filepath |-> NoPath, name |-> <<>>, row |-> 0, col |-> 0]

\* The loop of implByIf over the lines after the first.
RECURSIVE implByIfScan(_, _, _)
implByIfScan(lines, implSoFar, found) ==
    IF lines = <<>> THEN [impl |-> implSoFar, tooManyIfImpls |-> FALSE]
    ELSE LET l == Head(lines) IN
         IF IsTestLine(l) THEN implByIfScan(Tail(lines), implSoFar, found)
         ELSE IF found THEN [impl |-> implSoFar, tooManyIfImpls |-> TRUE]
         ELSE IF l.shape = "colons" THEN implByIfScan(Tail(lines), implSoFar, found)
         ELSE IF l.shape = "rowcol"
              THEN implByIfScan(Tail(lines),
                                [filepath |-> l.filepath, name |-> <<>>, row |-> 0, col |-> 0],
                                found)
              ELSE implByIfScan(Tail(lines),
                                [filepath |-> l.filepath, name |-> l.name,
                                 row |-> l.row, col |-> l.col],
                                TRUE)

\* implByIf: posErr is toPos failing on the interface, cmdErr guru failing.
implByIf(posErr, cmdErr, lines) ==
    IF posErr \/ cmdErr THEN [impl |-> Nil, err |-> TRUE]
    ELSE LET r == implByIfScan(lines, ZeroImpl, FALSE) IN
         IF r.tooManyIfImpls THEN [impl |-> Nil, err |-> TRUE]
         ELSE [impl |-> r.impl, err |-> FALSE]

\* The loops of implRefs and ifRefs: the lines that parse, test files left out.
RECURSIVE parseRefs(_)
parseRefs(lines) ==
    IF lines = <<>> THEN <<>>
    ELSE LET l == Head(lines) IN
         IF IsTestLine(l) \/ l.shape # "ok" THEN parseRefs(Tail(lines))
         ELSE <<[filepath |-> l.filepath, row |-> l.row, col |-> l.col]>>
                  \o parseRefs(Tail(lines))

\* The error of the guru command is printed and otherwise ignored.
implRefs(posErr, cmdErr, lines) ==
    IF posErr THEN [refs |-> <<>>, err |-> TRUE]
    ELSE [refs |-> parseRefs(lines), err |-> FALSE]

ifRefs(posErr, cmdErr, lines) ==
    IF posErr THEN [refs |-> <<>>, err |-> TRUE]
    ELSE [refs |-> parseRefs(lines), err |-> FALSE]

(***************************************************************************)
(* Spec: main.  The content of a file is the set of writes made to it      *)
(* since the start of the run (none: the pre-run content); the tag and     *)
(* declaration lines the scan reads are taken to survive the rewrites.     *)
(***************************************************************************)
\* A file that exists with the writes made to it, and no file.
File(writes) == [exists |-> TRUE, writes |-> writes]
Absent == [exists |-> FALSE, writes |-> {}]
Pristine == File({})

IfPath == ScanPath1
TestPath == ScanPath2
ImplPath == Path(<< <<"a">> >>, "impl", ".go")
UsePath == Path(<< <<"b">> >>, "use", ".go")
DriverPaths == {IfPath, TestPath, ImplPath, UsePath}

DriverKinds1 == {<<>>, <<"tag", "declA">>, <<"tag", "declA", "tag", "declB">>}
DriverKinds2 == {<<>>, <<"tag", "declA">>}

ImplementsLines ==
    {GuruLine(f, sh) : f \in {ImplPath, TestPath}, sh \in {"ok", "colons", "rowcol"}}
ReferrerLines ==
    {GuruLine(f, sh) : f \in {IfPath, UsePath, TestPath}, sh \in {"ok", "colons"}}

LinesFiles(lines) == {lines[i].filepath : i \in 1..Len(lines)}
NonTest(lines) == {i \in 1..Len(lines) : ~IsTestLine(lines[i])}
Parsable(lines) == {i \in NonTest(lines) : lines[i].shape = "ok"}

\* A reference lookup that failed to run, listed no reference, or listed a
\* line of a non-test file that does not parse into file, row and column.
BadRefs(cmdErr, lines) ==
    cmdErr \/ lines = <<>> \/ \E i \in NonTest(lines) : lines[i].shape # "ok"

NoLookup == [nonTest |-> 0, parsable |-> 0, err |-> FALSE, made |-> FALSE]
HistInit ==
    [restoreStarted |-> FALSE, buildRuns |-> 0, buildOk |-> FALSE,
     unrecoverable |-> {}, died |-> FALSE, resolutionErr |-> FALSE,
     badRefs |-> FALSE]

\* The files that exist, for the calls that only need to read one.
DrvDisk == [p \in {q \in DOMAIN content : content[q].exists} |-> <<>>]

Init ==
    /\ \E k1 \in DriverKinds1, k2 \in DriverKinds2 : tree = ScanTree(k1, k2)
    /\ processedInterfaces = <<>>
    /\ pc = "scan"
    /\ srcFilesToBackup = <<>>
    /\ content = [p \in DriverPaths |-> Pristine]
    /\ snapshot = [p \in DriverPaths |-> Absent]
    /\ taggedIf = Nil
    /\ impl = Nil
    /\ implRefFiles = {}
    /\ ifRefsOfTag = <<>>
    /\ idx = 0
    /\ lookup = NoLookup
    /\ tagWrites = {}
    /\ hist = HistInit
    /\ returned = Idle /\ scanPc = Idle
    /\ posArgs = Idle /\ posRet = Idle
    /\ tagArgs = Idle /\ tagRet = Idle
    /\ RwIdle

DrvOthers == <<posVars, tagVars, rwVars, returned, scanPc, tree>>

\* main 153-158: the next tag is found and its file tracked
NextTag ==
    /\ pc = "scan"
    /\ LET r == nextInterfaceToProcess(tree, processedInterfaces) IN
       /\ r.taggedIf # Nil
       /\ processedInterfaces' = r.processed
       /\ taggedIf' = r.taggedIf
       /\ srcFilesToBackup' = Add(srcFilesToBackup, r.taggedIf.filepath)
    /\ pc' = "implByIf"
    /\ impl' = Nil /\ implRefFiles' = {} /\ ifRefsOfTag' = <<>>
    /\ lookup' = NoLookup /\ tagWrites' = {}
    /\ hist' = [hist EXCEPT !.badRefs = FALSE]
    /\ UNCHANGED <<content, snapshot, idx, DrvOthers>>

\* main 155-157: no tag is left
NoMoreTags ==
    /\ pc = "scan"
    /\ LET r == nextInterfaceToProcess(tree, processedInterfaces) IN
       /\ r.taggedIf = Nil
       /\ processedInterfaces' = r.processed
    /\ pc' = "build"
    /\ UNCHANGED <<srcFilesToBackup, content, snapshot, taggedIf, impl, implRefFiles,
                   ifRefsOfTag, idx, lookup, tagWrites, hist, DrvOthers>>

\* main 164-172: the implementation is looked up
FindImplementation ==
    /\ pc = "implByIf"
    /\ \E cmdErr \in BOOLEAN, lines \in BSeq(ImplementsLines, MaxImplLines) :
          LET posErr == toPos(DrvDisk, taggedIf.filepath, taggedIf.row, taggedIf.col).err
              r == implByIf(posErr, cmdErr, IF cmdErr THEN <<>> ELSE lines)
          IN
          /\ cmdErr => lines = <<>>
          /\ lookup' = [nonTest |-> Cardinality(NonTest(lines)),
                        parsable |-> Cardinality(Parsable(lines)),
                        err |-> r.err, made |-> TRUE]
          /\ IF r.err
             THEN /\ pc' = "build"
                  /\ hist' = [hist EXCEPT !.resolutionErr = TRUE]
                  /\ UNCHANGED <<impl, srcFilesToBackup>>
             ELSE /\ pc' = "implRefs"
                  /\ impl' = r.impl
                  /\ srcFilesToBackup' = Add(srcFilesToBackup, r.impl.filepath)
                  /\ UNCHANGED hist
    /\ UNCHANGED <<processedInterfaces, content, snapshot, taggedIf, implRefFiles,
                   ifRefsOfTag, idx, tagWrites, DrvOthers>>

\* main 175-185: the references to the implementation are looked up; the
\* files of all the lines guru lists refer to the implementation, the ones
\* implRefs parses are tracked
FindImplRefs ==
    /\ pc = "implRefs"
    /\ \E cmdErr \in BOOLEAN, lines \in BSeq(ReferrerLines, MaxRefLines) :
          LET r == implRefs(toPos(DrvDisk, impl.filepath, impl.row, impl.col).err,
                            cmdErr, lines)
          IN
          /\ cmdErr => lines = <<>>
          /\ hist' = [hist EXCEPT !.resolutionErr = r.err,
                                  !.badRefs = BadRefs(cmdErr, lines)]
          /\ IF r.err
             THEN /\ pc' = "build"
                  /\ UNCHANGED <<srcFilesToBackup, implRefFiles>>
             ELSE /\ pc' = "ifRefs"
                  /\ srcFilesToBackup' = AddAll(srcFilesToBackup, r.refs)
                  /\ implRefFiles' = LinesFiles(lines)
    /\ UNCHANGED <<processedInterfaces, content, snapshot, taggedIf, impl,
                   ifRefsOfTag, idx, lookup, tagWrites, DrvOthers>>

\* main 189-199: the references to the interface are looked up and tracked
FindIfRefs ==
    /\ pc = "ifRefs"
    /\ \E cmdErr \in BOOLEAN, lines \in BSeq(ReferrerLines, MaxRefLines) :
          LET r == ifRefs(toPos(DrvDisk, taggedIf.filepath, taggedIf.row, taggedIf.col).err,
                          cmdErr, lines)
          IN
          /\ cmdErr => lines = <<>>
          /\ hist' = [hist EXCEPT !.resolutionErr = r.err,
                                  !.badRefs = @ \/ BadRefs(cmdErr, lines)]
          /\ IF r.err
             THEN /\ pc' = "build"
                  /\ UNCHANGED <<srcFilesToBackup, ifRefsOfTag, idx>>
             ELSE /\ pc' = "backup"
                  /\ ifRefsOfTag' = r.refs
                  /\ srcFilesToBackup' = AddAll(srcFilesToBackup, r.refs)
                  /\ idx' = 1
    /\ UNCHANGED <<processedInterfaces, content, snapshot, taggedIf, impl, implRefFiles,
                   lookup, tagWrites, DrvOthers>>

Write(cnt, files, what) ==
    [q \in DOMAIN cnt |->
        IF q \in files /\ cnt[q].exists THEN File(cnt[q].writes \cup {what}) ELSE cnt[q]]

Exists(filepath) == filepath \in DOMAIN content /\ content[filepath].exists

Exit(died) ==
    /\ pc' = "exit"
    /\ hist' = [hist EXCEPT !.died = died]

\* main 202-205: a file that is already backed up is passed over
BackupSkip ==
    /\ pc = "backup"
    /\ idx <= Len(srcFilesToBackup)
    /\ srcFilesToBackup[idx].backedUp
    /\ idx' = idx + 1
    /\ UNCHANGED <<pc, processedInterfaces, srcFilesToBackup, content, snapshot, taggedIf,
                   impl, implRefFiles, ifRefsOfTag, lookup, tagWrites, hist, DrvOthers>>

\* main 206-210: copyFile writes the snapshot <filepath>.txt
BackupCopy ==
    /\ pc = "backup"
    /\ idx <= Len(srcFilesToBackup)
    /\ ~srcFilesToBackup[idx].backedUp
    /\ Exists(srcFilesToBackup[idx].filepath)
    /\ snapshot' = [snapshot EXCEPT ![srcFilesToBackup[idx].filepath] =
                       content[srcFilesToBackup[idx].filepath]]
    /\ srcFilesToBackup' = [srcFilesToBackup EXCEPT ![idx].backedUp = TRUE]
    /\ idx' = idx + 1
    /\ UNCHANGED <<pc, processedInterfaces, content, taggedIf, impl, implRefFiles,
                   ifRefsOfTag, lookup, tagWrites, hist, DrvOthers>>

\* main 206-209: copyFile fails and main returns
BackupFail ==
    /\ pc = "backup"
    /\ idx <= Len(srcFilesToBackup)
    /\ ~srcFilesToBackup[idx].backedUp
    /\ Exit(FALSE)
    /\ UNCHANGED <<processedInterfaces, srcFilesToBackup, content, snapshot, taggedIf, impl,
                   implRefFiles, ifRefsOfTag, idx, lookup, tagWrites, DrvOthers>>

BackupDone ==
    /\ pc = "backup"
    /\ idx > Len(srcFilesToBackup)
    /\ pc' = "renameImpl"
    /\ UNCHANGED <<processedInterfaces, srcFilesToBackup, content, snapshot, taggedIf, impl,
                   implRefFiles, ifRefsOfTag, idx, lookup, tagWrites, hist, DrvOthers>>

\* main 215-223 and renameRefMany: gorename renames the implementation in
\* its own file and in every file that refers to it.  It needs a position
\* on the implementation's name, which only a parsed line gives.
RenameImpl ==
    /\ pc = "renameImpl"
    /\ ~toPos(DrvDisk, impl.filepath, impl.row, impl.col).err
    /\ impl.name # <<>>
    /\ content' = Write(content, {impl.filepath} \cup implRefFiles, "rename")
    /\ tagWrites' = tagWrites \cup {impl.filepath} \cup implRefFiles
    /\ pc' = "renameRefs"
    /\ idx' = 1
    /\ UNCHANGED <<processedInterfaces, srcFilesToBackup, snapshot, taggedIf, impl,
                   implRefFiles, ifRefsOfTag, lookup, hist, DrvOthers>>

\* main 216-223: toPos or gorename fails and main returns
RenameImplFail ==
    /\ pc = "renameImpl"
    /\ Exit(FALSE)
    /\ UNCHANGED <<processedInterfaces, srcFilesToBackup, content, snapshot, taggedIf, impl,
                   implRefFiles, ifRefsOfTag, idx, lookup, tagWrites, DrvOthers>>

\* main 229-262: one interface reference is rewritten by renameRefSingle
EditRef ==
    /\ pc = "renameRefs"
    /\ idx <= Len(ifRefsOfTag)
    /\ content' = Write(content, {ifRefsOfTag[idx].filepath}, "edit")
    /\ tagWrites' = tagWrites \cup {ifRefsOfTag[idx].filepath}
    /\ idx' = idx + 1
    /\ UNCHANGED <<pc, processedInterfaces, srcFilesToBackup, snapshot, taggedIf, impl,
                   implRefFiles, ifRefsOfTag, lookup, hist, DrvOthers>>

\* main 233-259: toPos, shouldConvertTo or renameRefSingle returns an error
\* and main returns, or one of them panics and the process dies
EditRefFail ==
    /\ pc = "renameRefs"
    /\ idx <= Len(ifRefsOfTag)
    /\ \E died \in BOOLEAN : Exit(died)
    /\ UNCHANGED <<processedInterfaces, srcFilesToBackup, content, snapshot, taggedIf, impl,
                   implRefFiles, ifRefsOfTag, idx, lookup, tagWrites, DrvOthers>>

EditRefsDone ==
    /\ pc = "renameRefs"
    /\ idx > Len(ifRefsOfTag)
    /\ pc' = "fixImports"
    /\ idx' = 1
    /\ UNCHANGED <<processedInterfaces, srcFilesToBackup, content, snapshot, taggedIf, impl,
                   implRefFiles, ifRefsOfTag, lookup, tagWrites, hist, DrvOthers>>

\* main 264-269 and fixImports: the imports of a reference's file are fixed
FixImports ==
    /\ pc = "fixImports"
    /\ idx <= Len(ifRefsOfTag)
    /\ content' = Write(content, {ifRefsOfTag[idx].filepath}, "imports")
    /\ tagWrites' = tagWrites \cup {ifRefsOfTag[idx].filepath}
    /\ idx' = idx + 1
    /\ UNCHANGED <<pc, processedInterfaces, srcFilesToBackup, snapshot, taggedIf, impl,
                   implRefFiles, ifRefsOfTag, lookup, hist, DrvOthers>>

\* main 266-268: fixImports fails and main returns
FixImportsFail ==
    /\ pc = "fixImports"
    /\ idx <= Len(ifRefsOfTag)
    /\ Exit(FALSE)
    /\ UNCHANGED <<processedInterfaces, srcFilesToBackup, content, snapshot, taggedIf, impl,
                   implRefFiles, ifRefsOfTag, idx, lookup, tagWrites, DrvOthers>>

\* main 270: the tag is done, the loop scans for the next one
FixImportsDone ==
    /\ pc = "fixImports"
    /\ idx > Len(ifRefsOfTag)
    /\ pc' = "scan"
    /\ UNCHANGED <<processedInterfaces, srcFilesToBackup, content, snapshot, taggedIf, impl,
                   implRefFiles, ifRefsOfTag, idx, lookup, tagWrites, hist, DrvOthers>>

\* main 273-280: the go tool runs with the arguments; main goes on to the
\* restoration whether it succeeded or not
Build ==
    /\ pc = "build"
    /\ \E ok \in BOOLEAN :
          hist' = [hist EXCEPT !.buildRuns = @ + 1, !.buildOk = ok, !.restoreStarted = TRUE]
    /\ pc' = "restore"
    /\ idx' = 1
    /\ UNCHANGED <<processedInterfaces, srcFilesToBackup, content, snapshot, taggedIf, impl,
                   implRefFiles, ifRefsOfTag, lookup, tagWrites, DrvOthers>>

HasSnapshot(filepath) == filepath \in DOMAIN snapshot /\ snapshot[filepath].exists

\* main 283-287: the snapshot is missing; the file is reported and passed over
RestoreMissing ==
    /\ pc = "restore"
    /\ idx <= Len(srcFilesToBackup)
    /\ ~HasSnapshot(srcFilesToBackup[idx].filepath)
    /\ idx' = idx + 1
    /\ UNCHANGED <<pc, processedInterfaces, srcFilesToBackup, content, snapshot, taggedIf,
                   impl, implRefFiles, ifRefsOfTag, lookup, tagWrites, hist, DrvOthers>>

\* main 288-295: the file is removed and the snapshot renamed back
RestoreFile ==
    /\ pc = "restore"
    /\ idx <= Len(srcFilesToBackup)
    /\ HasSnapshot(srcFilesToBackup[idx].filepath)
    /\ content' = [content EXCEPT ![srcFilesToBackup[idx].filepath] =
                      snapshot[srcFilesToBackup[idx].filepath]]
    /\ snapshot' = [snapshot EXCEPT ![srcFilesToBackup[idx].filepath] = Absent]
    /\ idx' = idx + 1
    /\ UNCHANGED <<pc, processedInterfaces, srcFilesToBackup, taggedIf, impl, implRefFiles,
                   ifRefsOfTag, lookup, tagWrites, hist, DrvOthers>>

\* main 288-291: os.Remove fails and main returns
RestoreRemoveFails ==
    /\ pc = "restore"
    /\ idx <= Len(srcFilesToBackup)
    /\ HasSnapshot(srcFilesToBackup[idx].filepath)
    /\ pc' = "exit"
    /\ hist' = [hist EXCEPT !.unrecoverable = @ \cup {srcFilesToBackup[idx].filepath}]
    /\ UNCHANGED <<processedInterfaces, srcFilesToBackup, content, snapshot, taggedIf, impl,
                   implRefFiles, ifRefsOfTag, idx, lookup, tagWrites, DrvOthers>>

\* main 288-295: os.Remove succeeds, os.Rename fails and main returns
RestoreRenameFails ==
    /\ pc = "restore"
    /\ idx <= Len(srcFilesToBackup)
    /\ HasSnapshot(srcFilesToBackup[idx].filepath)
    /\ content' = [content EXCEPT ![srcFilesToBackup[idx].filepath] = Absent]
    /\ pc' = "exit"
    /\ hist' = [hist EXCEPT !.unrecoverable = @ \cup {srcFilesToBackup[idx].filepath}]
    /\ UNCHANGED <<processedInterfaces, srcFilesToBackup, snapshot, taggedIf, impl,
                   implRefFiles, ifRefsOfTag, idx, lookup, tagWrites, DrvOthers>>

\* main 296-297: every tracked file was visited
RestoreDone ==
    /\ pc = "restore"
    /\ idx > Len(srcFilesToBackup)
    /\ pc' = "exit"
    /\ UNCHANGED <<processedInterfaces, srcFilesToBackup, content, snapshot, taggedIf, impl,
                   implRefFiles, ifRefsOfTag, idx, lookup, tagWrites, hist, DrvOthers>>

Next ==
    \/ NextTag \/ NoMoreTags
    \/ FindImplementation \/ FindImplRefs \/ FindIfRefs
    \/ BackupSkip \/ BackupCopy \/ BackupFail \/ BackupDone
    \/ RenameImpl \/ RenameImplFail
    \/ EditRef \/ EditRefFail \/ EditRefsDone
    \/ FixImports \/ FixImportsFail \/ FixImportsDone
    \/ Build
    \/ RestoreMissing \/ RestoreFile \/ RestoreRemoveFails \/ RestoreRenameFails
    \/ RestoreDone

Spec == Init /\ [][Next]_vars

Tracked == {srcFilesToBackup[i].filepath : i \in 1..Len(srcFilesToBackup)}

\* C1: in every run in which a file has been snapshotted, whichever later
\* stage fails, the restore step runs over the tracked files before the
\* process exits.
C1_RestoreAlwaysLast ==
    (pc = "exit" /\ \E i \in 1..Len(srcFilesToBackup) : srcFilesToBackup[i].backedUp)
        => hist.restoreStarted

\* C2: a file is backed up before the first byte is written to it: whenever
\* the implementation rename, a reference edit or the import fixer writes to
\* a file, the file's snapshot has already been written.
C2_BackupBeforeWrite ==
    [][\A p \in DriverPaths :
          (content'[p].exists /\ ~(content'[p].writes \subseteq content[p].writes))
              => snapshot[p].exists]_vars

\* C3: after a run that reached the restore stage, whether the build
\* succeeded or failed, every file for which a backup was requested has its
\* pre-run content and no snapshot; a file whose own removal or renaming
\* failed is left out, as the specification's invariant on backups does.
C3_RestorationCompleteness ==
    (pc = "exit" /\ hist.restoreStarted) =>
        \A p \in (Tracked \cap DriverPaths) \ hist.unrecoverable :
            content[p] = Pristine /\ ~snapshot[p].exists

\* C5: when the resolver lists two or more non-test implementing types,
\* implByIf returns an error, the loop ends for that tag and no file is
\* written for it; lines of test files do not count.
C5_SingleImplementation ==
    (lookup.made /\ lookup.nonTest >= 2) =>
        /\ lookup.err
        /\ pc \in {"build", "restore", "exit"}
        /\ tagWrites = {}

\* C6: when the resolver lists no non-test implementing type that parses (no
\* line, only lines of test files, only unparsable lines), implByIf returns
\* an error, so main never goes on to back up or rewrite.
C6_NoImplementationFails ==
    (lookup.made /\ lookup.parsable = 0) =>
        /\ lookup.err
        /\ pc \in {"build", "restore", "exit"}

\* C11: when removing the rewritten file or renaming its snapshot back fails
\* for a tracked file, or its snapshot is missing, the restoration goes on
\* with the remaining tracked files: the restore stage is left only when no
\* tracked file remains after the current one.
C11_RestoreContinues ==
    [][(pc = "restore" /\ pc' = "exit") => idx >= Len(srcFilesToBackup)]_vars

\* The edits before the k-th that were made on the k-th edit's file and row.
EarlierOnRow(k) == {j \in 1..(k - 1) : SameLine(editLog[j], editLog[k])}

RECURSIVE SumDeltas(_)
SumDeltas(js) ==
    IF js = {} THEN 0
    ELSE LET j == CHOOSE x \in js : TRUE
         IN (Len(editLog[j].to) - Len(editLog[j].from)) + SumDeltas(js \ {j})

\* C12: offset growth is cumulative: from the third reference on a file and
\* row on, the column used for an edit is its reported column plus the sum of
\* the byte-length deltas of all the earlier edits on that row.
C12_CumulativeGrowth ==
    \A k \in 3..Len(editLog) :
        Cardinality(EarlierOnRow(k)) >= 2 =>
            editLog[k].usedCol = editLog[k].col + SumDeltas(EarlierOnRow(k))

\* The files the failing tag made main track, none of them copied yet, and
\* the files written since the start of the run.
Rewritten == {p \in DriverPaths : content[p] # Pristine}

\* C13: a resolution error for a tag (implByIf, implRefs or ifRefs) ends the
\* per-tag loop at once: no further tag is scanned and nothing is
\* snapshotted or written for the failing tag, the build then runs exactly
\* once, the restoration runs after it and restores every file rewritten for
\* the earlier tags (a file whose own removal or renaming failed left out).
C13_ResolutionErrorEndsLoop ==
    hist.resolutionErr =>
        /\ pc \in {"build", "restore", "exit"}
        /\ tagWrites = {}
        /\ hist.buildRuns = (IF pc = "build" THEN 0 ELSE 1)
        /\ hist.restoreStarted = (pc # "build")
        /\ pc = "exit" => Rewritten \subseteq hist.unrecoverable

\* The part of C13 that is about the order of the stages alone.
ResolutionErrorGoesToBuildOnce ==
    hist.resolutionErr =>
        /\ pc \in {"build", "restore", "exit"}
        /\ tagWrites = {}
        /\ hist.buildRuns = (IF pc = "build" THEN 0 ELSE 1)
        /\ hist.restoreStarted = (pc # "build")

\* C14: zero or garbled reference results are a resolution error: when the
\* lookup of the references to the implementation or to the interface fails
\* to run, lists no reference or lists a line that does not parse, the
\* lookup returns an error and main does not go on to the backup and the
\* rewriting for that tag.
C14_BadReferencesFail ==
    hist.badRefs =>
        /\ hist.resolutionErr
        /\ pc \in {"build", "restore", "exit"}
        /\ tagWrites = {}

\* The order of the two files of a directory by name: more.go before use.go.
FileRank(filepath) == IF filepath.name = "more" THEN 1 ELSE 2

\* (file, row, column) of e1 strictly before that of e2
EditBefore(e1, e2) ==
    \/ FileRank(e1.filepath) < FileRank(e2.filepath)
    \/ /\ e1.filepath = e2.filepath
       /\ \/ e1.row < e2.row
          \/ e1.row = e2.row /\ e1.col < e2.col

\* C15: within one tag the references are rewritten in increasing (file,
\* row, column) order whatever the order the resolver lists them in; two
\* references on the same row are edited left to right.
C15_EditsInIncreasingOrder ==
    \A j, k \in 1..Len(editLog) : j < k => EditBefore(editLog[j], editLog[k])

\* What the code does: the edits are made in the order of the list.
EditsInListedOrder ==
    \A k \in 1..Len(editLog) :
        /\ editLog[k].filepath = rwTag.ifRefs[k].filepath
        /\ editLog[k].row = rwTag.ifRefs[k].row
        /\ editLog[k].col = rwTag.ifRefs[k].col

\* srcFilesToBackup holds at most one entry per filepath.
OneEntryPerFile ==
    \A i, j \in 1..Len(srcFilesToBackup) :
        srcFilesToBackup[i].filepath = srcFilesToBackup[j].filepath => i = j

\* C16: a backup is taken once per file per run: the tracked list holds at
\* most one entry per filepath and a file is copied on the first request
\* only, so in every reachable state an existing snapshot holds the file's
\* pre-run bytes, never content that was already rewritten.
C16_SnapshotHoldsPreRunBytes ==
    /\ OneEntryPerFile
    /\ \A p \in DriverPaths : snapshot[p].exists => snapshot[p] = Pristine

\* The part of C16 that is about the list and the copies alone: an existing
\* snapshot is never written again.
SnapshotWrittenOnce ==
    [][\A p \in DriverPaths :
          snapshot[p].exists => (snapshot'[p] = snapshot[p] \/ ~snapshot'[p].exists)]_vars

\* The number of bytes of the lines strictly before row, their terminators
\* included: the index of the (row - 1)-th line feed, 0 for the first row.
BytesBefore(b, row) ==
    IF row = 1 THEN 0
    ELSE CHOOSE i \in 1..Len(b) :
            /\ b[i] = "\n"
            /\ Cardinality({j \in 1..i : b[j] = "\n"}) = row - 1

\* C17: for a readable file, a row within the file's line count and a column
\* of 1 or more, toPos returns without error the byte lengths of the lines
\* strictly before the row, terminators included, plus the column minus 1:
\* row 1 column 1 is offset 0 and column 1 of a row is the first byte of it.
C17_PositionTranslation ==
    (/\ posRet # NoRet
     /\ posArgs.readable
     /\ posArgs.row <= LineCount(posArgs.bytes)) =>
        /\ ~posRet.err
        /\ posRet.pos = BytesBefore(posArgs.bytes, posArgs.row) + posArgs.col - 1

\* toPos has translated column 2 of the third row of a file whose first line
\* ends in "\r\n" and whose second line is empty.
C17_Witness ==
    /\ posRet # NoRet
    /\ posArgs.readable
    /\ posArgs.bytes = <<"\r", "\n", "\n", "a">>
    /\ posArgs.row = 3
    /\ posArgs.col = 2
    /\ posRet.pos = 4

\* C18: applying one edit yields exactly old[0:off] + newText +
\* old[off+oldLen:] and leaves every byte outside the replaced span, and
\* every other file, as it was; for a reference in the interface's package
\* off is the translated offset and oldLen the length of the bare name, for a
\* reference in another package off is the translated offset minus (1 +
\* length of the interface package name) and oldLen the length of
\* "<interface package>.<name>".
C18_EditReplacesSpanOnly ==
    [][Len(editLog') = Len(editLog) + 1 =>
          LET e == editLog'[Len(editLog')]
              old == refFiles[e.filepath]
              ifDir == rwTag.taggedIf.filepath.dir
              ifPkg == ifDir[Len(ifDir)]
              same == e.filepath.dir = ifDir
              off == IF same THEN e.pos ELSE e.pos - (1 + Len(ifPkg))
              oldLen == IF same THEN Len(rwTag.taggedIf.name)
                                ELSE Len(ifPkg) + 1 + Len(rwTag.taggedIf.name)
          IN refFiles' = [refFiles EXCEPT ![e.filepath] =
                             SubSeq(old, 1, off) \o e.to \o Drop(old, off + oldLen)]]_vars

\* The loop has ended after two or more edits, one of them of a reference
\* outside the interface's package in a file that holds bytes after it.
C18_Witness ==
    /\ rwPc = "done"
    /\ Len(editLog) >= 2
    /\ \E k \in 1..Len(editLog) :
          /\ editLog[k].filepath.dir # rwTag.taggedIf.filepath.dir
          /\ editLog[k].pos + Len(rwTag.taggedIf.name) < Len(editLog[k].before)
          /\ refFiles[editLog[k].filepath] # editLog[k].before

====
